---- MODULE Spec2Model ----
(***************************************************************************)
(* A model of qutebrowser's network layer.                                 *)
(*                                                                         *)
(*   NetworkManager  src/qutebrowser/network/networkmanager.py             *)
(*                                                                         *)
(* The manager lives on one thread: createRequest, shutdown and the slots  *)
(* (destroyed, sslErrors, authenticationRequired) each run to completion,  *)
(* so each is one action.  A QNetworkReply is a handle 1..MaxReplies with  *)
(* the part of its Qt state the manager acts on: whether it is running or  *)
(* finished, whether abort() was called on it, and whether a deferred      *)
(* delete (deleteLater) is pending.  The variable last records what the    *)
(* most recent handler did to its arguments and collaborators (request     *)
(* headers, the transport, the message service, the authenticator).        *)
(***************************************************************************)
EXTENDS Integers, Sequences, FiniteSets, TLC

\* ------------------------------------------------------------------ bounds

\* Replies the transport hands out in one run.
MaxReplies == 3

\* Characters a line edit takes.
MaxText == 2

\* Half seconds the clock runs for.
MaxTime == 2

\* Replies handed out in one run of the fair specification.
MaxLiveReplies == 2

\* Largest list of certificate errors one sslErrors signal carries.
MaxSslErrors == 2

Handles == 1..MaxReplies

\* ------------------------------------------------------------------ values

None == "None"

Schemes == {"http", "https", "qute"}

\* config.get('network', 'accept-language'): unset, empty, or a language.
AcceptLanguages == {None, "", "en"}

\* Raw headers of the request as the caller passes it in: nothing set, or
\* all three already set (and the two do-not-track headers set differently).
NoHeaders == [DNT |-> None, XDNT |-> None, AL |-> None]
PresetHeaders == [DNT |-> "0", XDNT |-> "1", AL |-> "de"]
RequestHeaders == {NoHeaders, PresetHeaders}

\* message.ask(..., mode=user_pwd): None when the prompt is cancelled.
Answers == {None, <<"joe", "secret">>}

\* The QAuthenticator the signal carries: empty, or filled by an earlier try.
Authenticators == {[user |-> None, password |-> None],
                   [user |-> "old", password |-> "stale"]}

Range(s) == {s[i] : i \in 1..Len(s)}

\* ------------------------------------------------------------------ state

VARIABLES
    networkAccessible,  \* QNetworkAccessManager.networkAccessible
    _requests,          \* NetworkManager._requests, a list of replies
    reply,              \* the QNetworkReply objects, by handle
    SSL_AVAILABLE,      \* module constant, fixed at import
    shutdown_done,      \* history: shutdown() has run
    raised,             \* an exception escaped a slot
    hist,               \* history: per handle, times tracked and untracked
    allCookies,         \* QNetworkCookieJar's list of cookies
    cookiefile,         \* the lines of the cookies file
    now,                \* QDateTime.currentDateTime()
    saved,              \* history: what the last save had to write
    refused,            \* history: the latest setCookiesFromUrl was refused
    focus,              \* QApplication.focusWidget()
    lineedit,           \* the line edits: text and cursor
    deleted,            \* ReadlineBridge.deleted
    last                \* the most recent handler and its effects

nmvars == <<networkAccessible, _requests, reply, SSL_AVAILABLE, shutdown_done,
            raised, hist>>

jarvars == <<allCookies, cookiefile, now, saved, refused>>

rlvars == <<focus, lineedit, deleted>>

vars == <<nmvars, jarvars, rlvars, last>>

\* No save has written the cookies file yet.
NeverSaved == [valid |-> FALSE, kept |-> {}]

\* The readline bridge with no line edit on the screen.
RlIdle ==
    /\ focus = "None"
    /\ lineedit = <<>>
    /\ deleted = <<>>

\* The cookie jar before anything was stored.
JarIdle ==
    /\ allCookies = <<>>
    /\ cookiefile = <<>>
    /\ now = 0
    /\ saved = NeverSaved
    /\ refused = FALSE

Unborn == [state |-> "unborn", kind |-> None, aborted |-> FALSE, deleteLater |-> FALSE]

Live(h) == reply[h].state \in {"running", "finished"}

\* NetworkManager._scheme_handlers, as __init__ fills it.
_scheme_handlers == {"qute"}

\* ------------------------------------------------------------------ Qt objects

\* QNetworkReply.abort(): a running reply finishes at once.
abort(r) == [r EXCEPT !.state = "finished", !.aborted = TRUE]

\* QObject.deleteLater(): the delete is posted to the event loop.
deleteLater(r) == [r EXCEPT !.deleteLater = TRUE]

\* QNetworkAccessManager.createRequest: with network access switched off it
\* hands back a reply that only reports the 'not accessible' error.
super_createRequest(accessible) ==
    [state |-> "running",
     kind |-> IF accessible = "NotAccessible" THEN "disabled" ELSE "network",
     aborted |-> FALSE, deleteLater |-> FALSE]

\* The handle of the next reply object.
NewHandle == CHOOSE h \in Handles :
    /\ reply[h].state = "unborn"
    /\ \A g \in Handles : g < h => reply[g].state # "unborn"

\* ------------------------------------------------------------------ list

\* list.remove(obj): drops the first occurrence, ValueError if there is none.
RECURSIVE RemoveFirst(_, _)
RemoveFirst(s, obj) ==
    IF s = <<>> THEN <<>>
    ELSE IF Head(s) = obj THEN Tail(s)
    ELSE <<Head(s)>> \o RemoveFirst(Tail(s), obj)

ListRemove(s, obj) ==
    IF obj \in Range(s)
    THEN [list |-> RemoveFirst(s, obj), error |-> FALSE]
    ELSE [list |-> s, error |-> TRUE]

\* ------------------------------------------------------------------ createRequest

\* Mutant: the scheme handlers are never consulted.
Branch_NoHandlers(scheme, ssl, handlers) ==
    IF scheme = "https" /\ ~ssl THEN "ssl_error" ELSE "transport"

\* Mutant: the scheme handlers are consulted before the SSL check.
Branch_HandlerFirst(scheme, ssl, handlers) ==
    IF scheme \in handlers THEN "handler"
    ELSE IF scheme = "https" /\ ~ssl THEN "ssl_error"
    ELSE "transport"

\* The branch createRequest takes.
Branch(scheme, ssl, handlers) ==
    IF scheme = "https" /\ ~ssl THEN "ssl_error"
    ELSE IF scheme \in handlers THEN "handler"
    ELSE "transport"

\* Mutant: a do-not-track header the request already carries is kept.
SetHeaders_KeepPreset(req, dnt, accept_language) ==
    LET d == IF dnt THEN "1" ELSE "0"
        r == [req EXCEPT !.DNT = IF @ = None THEN d ELSE @,
                         !.XDNT = IF @ = None THEN d ELSE @]
    IN  IF accept_language # None THEN [r EXCEPT !.AL = accept_language] ELSE r

\* The header policy of createRequest.
SetHeaders(req, dnt, accept_language) ==
    LET d == IF dnt THEN "1" ELSE "0"
        r == [req EXCEPT !.DNT = d, !.XDNT = d]
    IN  IF accept_language # None THEN [r EXCEPT !.AL = accept_language] ELSE r

\* QuteSchemeHandler.createRequest: a reply, or an exception of the handler.
SchemeHandler_createRequest(outcome) ==
    IF outcome = "fault" THEN "handler_exception" ELSE "handler_reply"

\* Mutant: the reply is appended twice.
Track_Twice(reqs, h) == Append(Append(reqs, h), h)

\* self._requests.append(reply)
Track(reqs, h) == Append(reqs, h)

\* config.get('network', ...) is read where the code reads it; the handler's
\* outcome is the handler's own.
CreateRequest(scheme, req) ==
    LET branch == Branch(scheme, SSL_AVAILABLE, _scheme_handlers) IN
    \/ /\ branch = "ssl_error"
       /\ last' = [op |-> "createRequest", scheme |-> scheme, reqIn |-> req,
                   reqOut |-> req, response |-> "ssl_error", transport |-> FALSE,
                   handle |-> 0, before |-> _requests,
                   after_shutdown |-> shutdown_done]
       /\ UNCHANGED <<jarvars, rlvars, networkAccessible, _requests, reply, SSL_AVAILABLE,
                      shutdown_done, raised, hist>>
    \/ /\ branch = "handler"
       /\ \E outcome \in {"reply", "fault"} :
             last' = [op |-> "createRequest", scheme |-> scheme, reqIn |-> req,
                      reqOut |-> req,
                      response |-> SchemeHandler_createRequest(outcome),
                      transport |-> FALSE, handle |-> 0, before |-> _requests,
                      after_shutdown |-> shutdown_done]
       /\ UNCHANGED <<jarvars, rlvars, networkAccessible, _requests, reply, SSL_AVAILABLE,
                      shutdown_done, raised, hist>>
    \/ /\ branch = "transport"
       /\ \E h \in Handles : reply[h].state = "unborn"
       /\ \E dnt \in BOOLEAN, accept_language \in AcceptLanguages :
          LET h == NewHandle
              r == super_createRequest(networkAccessible)
          IN  /\ reply' = [reply EXCEPT ![h] = r]
              /\ _requests' = Track(_requests, h)
              /\ hist' = [hist EXCEPT ![h].tracked =
                              @ + Len(_requests') - Len(_requests)]
              /\ last' = [op |-> "createRequest", scheme |-> scheme,
                          reqIn |-> req,
                          reqOut |-> SetHeaders(req, dnt, accept_language),
                          dnt |-> dnt, accept_language |-> accept_language,
                          response |-> IF r.kind = "disabled"
                                       THEN "not_accessible" ELSE "network",
                          transport |-> TRUE, handle |-> h,
                          before |-> _requests,
                          after_shutdown |-> shutdown_done]
       /\ UNCHANGED <<jarvars, rlvars, networkAccessible, SSL_AVAILABLE, shutdown_done, raised>>

\* ------------------------------------------------------------------ shutdown

\* Mutant: every second reply of the list is skipped.
RECURSIVE ShutdownLoop_Skipping(_, _, _, _)
ShutdownLoop_Skipping(rs, calls, reqs, i) ==
    IF i > Len(reqs) THEN [reply |-> rs, calls |-> calls]
    ELSE ShutdownLoop_Skipping(
            [rs EXCEPT ![reqs[i]] = deleteLater(abort(@))],
            calls \o << <<"abort", reqs[i]>>, <<"deleteLater", reqs[i]>> >>,
            reqs, i + 2)

\* for request in self._requests: request.abort(); request.deleteLater()
\* Gives the replies afterwards and the calls made, in order.
RECURSIVE ShutdownLoop(_, _, _, _)
ShutdownLoop(rs, calls, reqs, i) ==
    IF i > Len(reqs) THEN [reply |-> rs, calls |-> calls]
    ELSE ShutdownLoop([rs EXCEPT ![reqs[i]] = deleteLater(abort(@))],
                      calls \o << <<"abort", reqs[i]>>, <<"deleteLater", reqs[i]>> >>,
                      reqs, i + 1)

\* Mutant: the accessibility is left as it is.
setNetworkAccessible_Forgotten(old) == old

\* Mutant: the accessibility is toggled.
setNetworkAccessible_Toggle(old) ==
    IF old = "NotAccessible" THEN "Accessible" ELSE "NotAccessible"

\* self.setNetworkAccessible(QNetworkAccessManager.NotAccessible)
setNetworkAccessible(old) == "NotAccessible"

\* Mutant: shutdown also empties the list of the replies it aborts.
Shutdown_Clearing ==
    /\ networkAccessible' = setNetworkAccessible(networkAccessible)
    /\ LET res == ShutdownLoop(reply, <<>>, _requests, 1)
       IN  /\ reply' = res.reply
           /\ last' = [op |-> "shutdown", tracked |-> _requests,
                       calls |-> res.calls, again |-> shutdown_done]
    /\ _requests' = <<>>
    /\ shutdown_done' = TRUE
    /\ UNCHANGED <<jarvars, rlvars, SSL_AVAILABLE, raised, hist>>

Shutdown ==
    /\ networkAccessible' = setNetworkAccessible(networkAccessible)
    /\ LET res == ShutdownLoop(reply, <<>>, _requests, 1)
       IN  /\ reply' = res.reply
           /\ last' = [op |-> "shutdown", tracked |-> _requests,
                       calls |-> res.calls, again |-> shutdown_done]
    /\ shutdown_done' = TRUE
    /\ UNCHANGED <<jarvars, rlvars, _requests, SSL_AVAILABLE, raised, hist>>

\* ------------------------------------------------------------------ reply events

\* The transport signals terminal completion (success or error).
Finished(h) ==
    /\ reply[h].state = "running"
    /\ reply' = [reply EXCEPT ![h].state = "finished"]
    /\ last' = [op |-> "finished", handle |-> h]
    /\ UNCHANGED <<jarvars, rlvars, networkAccessible, _requests, SSL_AVAILABLE, shutdown_done,
                   raised, hist>>

\* The caller of createRequest, which owns the reply, releases it.
OwnerDeleteLater(h) ==
    /\ Live(h)
    /\ ~reply[h].deleteLater
    /\ reply' = [reply EXCEPT ![h] = deleteLater(@)]
    /\ last' = [op |-> "deleteLater", handle |-> h]
    /\ UNCHANGED <<jarvars, rlvars, networkAccessible, _requests, SSL_AVAILABLE, shutdown_done,
                   raised, hist>>

\* Mutant: the callback removes nothing.
Untrack_Nothing(reqs, obj) == [list |-> reqs, error |-> FALSE]

\* Mutant: the callback removes the oldest reply, whichever was destroyed.
Untrack_Pop(reqs, obj) ==
    [list |-> IF reqs = <<>> THEN reqs ELSE Tail(reqs), error |-> reqs = <<>>]

\* lambda obj: self._requests.remove(obj)
Untrack(reqs, obj) == ListRemove(reqs, obj)

\* The event loop runs the deferred delete; destroyed(obj) reaches the lambda.
Destroyed(h) ==
    /\ Live(h)
    /\ reply[h].deleteLater
    /\ LET res == Untrack(_requests, h)
       IN  /\ _requests' = res.list
           /\ raised' = (raised \/ res.error)
           /\ hist' = [hist EXCEPT ![h].untracked =
                           @ + Len(_requests) - Len(res.list)]
           /\ last' = [op |-> "destroyed", handle |-> h, before |-> _requests,
                       error |-> res.error]
    /\ reply' = [reply EXCEPT ![h].state = "destroyed", ![h].kind = None,
                              ![h].deleteLater = FALSE]
    /\ UNCHANGED <<jarvars, rlvars, networkAccessible, SSL_AVAILABLE, shutdown_done>>

\* ------------------------------------------------------------------ slots

\* Mutant: the strict setting is not consulted.
on_ssl_errors_Lenient(n, strict) ==
    [error_calls |-> n, warn_calls |-> 0, ignoreSslErrors |-> 1]

\* The body of on_ssl_errors for a list of n errors: the calls it makes to
\* message.error, to message.warning and to reply.ignoreSslErrors.
on_ssl_errors(n, strict) ==
    IF strict
    THEN [error_calls |-> 0, warn_calls |-> 0, ignoreSslErrors |-> 0]
    ELSE [error_calls |-> n, warn_calls |-> 0, ignoreSslErrors |-> 1]

\* on_ssl_errors(reply, errors), with config network/ssl-strict read as strict.
OnSslErrors(h, n, strict) ==
    /\ SSL_AVAILABLE
    /\ reply[h].state = "running"
    /\ LET res == on_ssl_errors(n, strict)
       IN  last' = [op |-> "on_ssl_errors", handle |-> h, strict |-> strict,
                    errors |-> n,
                    error_calls |-> res.error_calls,
                    warn_calls |-> res.warn_calls,
                    ignoreSslErrors |-> res.ignoreSslErrors]
    /\ UNCHANGED <<jarvars, rlvars, networkAccessible, _requests, reply, SSL_AVAILABLE,
                   shutdown_done, raised, hist>>

\* Mutant: a cancelled prompt fills in empty credentials.
_fill_authenticator_Guess(authenticator, answer) ==
    IF answer # None
    THEN [user |-> answer[1], password |-> answer[2]]
    ELSE [user |-> "", password |-> ""]

\* _fill_authenticator(authenticator, answer)
_fill_authenticator(authenticator, answer) ==
    IF answer # None
    THEN [user |-> answer[1], password |-> answer[2]]
    ELSE authenticator

\* on_authentication_required / on_proxy_authentication_required
OnAuthenticationRequired(proxy, authenticator, answer) ==
    /\ \E h \in Handles : reply[h].state = "running"
    /\ last' = [op |-> IF proxy THEN "on_proxy_authentication_required"
                       ELSE "on_authentication_required",
                prompt |-> IF proxy THEN "Proxy username" ELSE "Username",
                answer |-> answer,
                before |-> authenticator,
                authenticator |-> _fill_authenticator(authenticator, answer)]
    /\ UNCHANGED <<jarvars, rlvars, networkAccessible, _requests, reply, SSL_AVAILABLE,
                   shutdown_done, raised, hist>>

\* ------------------------------------------------------------------ specification

Init ==
    /\ networkAccessible = "Accessible"
    /\ _requests = <<>>
    /\ reply = [h \in Handles |-> Unborn]
    /\ SSL_AVAILABLE \in BOOLEAN
    /\ shutdown_done = FALSE
    /\ raised = FALSE
    /\ hist = [h \in Handles |-> [tracked |-> 0, untracked |-> 0]]
    /\ JarIdle
    /\ RlIdle
    /\ last = [op |-> "init"]

Next ==
    \/ \E scheme \in Schemes, req \in RequestHeaders : CreateRequest(scheme, req)
    \/ Shutdown
    \/ \E h \in Handles : Finished(h)
    \/ \E h \in Handles : OwnerDeleteLater(h)
    \/ \E h \in Handles : Destroyed(h)
    \/ \E h \in Handles, n \in 0..MaxSslErrors, strict \in BOOLEAN :
            OnSslErrors(h, n, strict)
    \/ \E proxy \in BOOLEAN, authenticator \in Authenticators, answer \in Answers :
            OnAuthenticationRequired(proxy, authenticator, answer)

Spec == Init /\ [][Next]_vars

\* ------------------------------------------------------------------ fair runs

\* The same program with the event loop running: a pending deferred delete
\* is eventually carried out, and the owner of a finished reply eventually
\* releases it.  Requests come with no header set.
NextLive ==
    \/ \E scheme \in Schemes :
          /\ Branch(scheme, SSL_AVAILABLE, _scheme_handlers) = "transport"
                => \E h \in 1..MaxLiveReplies : reply[h].state = "unborn"
          /\ CreateRequest(scheme, NoHeaders)
    \/ Shutdown
    \/ \E h \in Handles : Finished(h)
    \/ \E h \in Handles : OwnerDeleteLater(h)
    \/ \E h \in Handles : Destroyed(h)

Release(h) == reply[h].state = "finished" /\ OwnerDeleteLater(h)

FairSpec ==
    /\ Init
    /\ [][NextLive]_vars
    /\ \A h \in Handles : WF_vars(Destroyed(h))
    /\ \A h \in Handles : WF_vars(Release(h))

\* ------------------------------------------------------------------ untrack alone

\* Lists of distinct handles: what _requests can hold.
DistinctLists == {s \in UNION {[1..n -> Handles] : n \in 0..MaxReplies} :
                    \A i, j \in 1..Len(s) : i # j => s[i] # s[j]}

\* The destroyed lambda applied to any handle, tracked or not.
UntrackCall(obj) ==
    /\ LET res == Untrack(_requests, obj)
       IN  /\ _requests' = res.list
           /\ raised' = (raised \/ res.error)
           /\ last' = [op |-> "untrack", obj |-> obj, before |-> _requests,
                       error |-> res.error]
    /\ UNCHANGED <<jarvars, rlvars, networkAccessible, reply, SSL_AVAILABLE, shutdown_done, hist>>

InitUntrack ==
    /\ networkAccessible = "Accessible"
    /\ _requests \in DistinctLists
    /\ reply = [h \in Handles |->
                  IF h \in Range(_requests) THEN super_createRequest("Accessible")
                  ELSE Unborn]
    /\ SSL_AVAILABLE = TRUE
    /\ shutdown_done = FALSE
    /\ raised = FALSE
    /\ hist = [h \in Handles |->
                 [tracked |-> IF h \in Range(_requests) THEN 1 ELSE 0,
                  untracked |-> 0]]
    /\ JarIdle
    /\ RlIdle
    /\ last = [op |-> "init"]

NextUntrack == \E obj \in Handles : UntrackCall(obj)

SpecUntrack == InitUntrack /\ [][NextUntrack]_vars

\* ------------------------------------------------------------------ CookieJar

(***************************************************************************)
(*   CookieJar  src/qutebrowser/browser/cookies.py                         *)
(*                                                                         *)
(* A cookie is a record of name, value, domain, path and expiry; expiry    *)
(* is <<t>> for an expiration date t and <<>> for a QNetworkCookie without *)
(* one.  Time is counted in half seconds.                                  *)
(* The jar keeps QNetworkCookieJar's list (allCookies); the cookies file   *)
(* of the LineConfigParser is a list of lines.                             *)
(***************************************************************************)

Hosts == {"a.com", "b.org"}

Expiries == {<<>>, <<1>>, <<2>>}

\* Cookies as a reply carries them: the domain may be left to the URL.  The
\* cookie that lives longest carries the value "2".
CookieInputs ==
    {c \in [name : {"sid"}, value : {"1", "2"}, domain : {None, "a.com"},
            path : {"/"}, expiry : Expiries] :
       c.value = "2" <=> c.expiry = <<2>>}

\* The lists handed to setCookiesFromUrl: one cookie, or a session cookie
\* followed by a persistent one.
CookieLists ==
    {<<c>> : c \in CookieInputs} \cup
    {<<c, d>> : c \in {x \in CookieInputs : x.expiry = <<>> /\ x.domain = None},
                d \in {x \in CookieInputs : x.expiry = <<2>>}}

\* config.get('permissions', 'cookies-accept')
AcceptPolicies == {"default", "never"}

\* QNetworkCookie.isSessionCookie()
isSessionCookie(c) == c.expiry = <<>>

\* QNetworkCookie.toRawForm(): the expiry is written to the second.
toRawForm(c) ==
    [kind |-> "cookie", name |-> c.name, value |-> c.value,
     domain |-> c.domain, path |-> c.path,
     expires |-> IF c.expiry = <<>> THEN <<>>
                 ELSE <<(c.expiry[1] \div 2) * 2>>]

\* The cookie a raw form stands for.
ParseCookie(raw) ==
    [name |-> raw.name, value |-> raw.value, domain |-> raw.domain,
     path |-> raw.path, expiry |-> raw.expires]

\* QNetworkCookie.parseCookies(line): the cookies of one line.  A line is
\* the raw form of one cookie, several raw forms, blank, or junk.
parseCookies(line) ==
    IF line.kind = "cookie" THEN <<ParseCookie(line)>>
    ELSE IF line.kind = "multi"
    THEN [i \in 1..Len(line.cookies) |-> ParseCookie(line.cookies[i])]
    ELSE <<>>

\* The cookies file a run may start with: none, or one written by hand.
InitialFiles ==
    {<<>>,
     <<[kind |-> "blank"],
       toRawForm([name |-> "sid", value |-> "1", domain |-> "a.com",
                  path |-> "/", expiry |-> <<2>>]),
       [kind |-> "junk"]>>,
     <<[kind |-> "junk"],
       [kind |-> "multi",
        cookies |-> <<toRawForm([name |-> "sid", value |-> "2",
                                 domain |-> "a.com", path |-> "/",
                                 expiry |-> <<2>>]),
                      toRawForm([name |-> "sid", value |-> "2",
                                 domain |-> "b.org", path |-> "/",
                                 expiry |-> <<2>>])>>],
       [kind |-> "blank"]>>}

\* Same cookie for the jar: name, domain and path agree.
SameCookie(c, d) == c.name = d.name /\ c.domain = d.domain /\ c.path = d.path

\* QNetworkCookieJar.insertCookie: the cookie replaces the one it names; an
\* expired cookie only deletes.
insertCookie(jar, c, t) ==
    LET Other(d) == ~SameCookie(c, d)
        rest == SelectSeq(jar, Other)
        isDeletion == ~isSessionCookie(c) /\ c.expiry[1] < t
    IN  [jar |-> IF isDeletion THEN rest ELSE Append(rest, c),
         added |-> ~isDeletion]

\* QNetworkCookieJar.setCookiesFromUrl: each cookie takes the URL's host
\* when it names no domain, is dropped when it names another host, and is
\* inserted otherwise.
RECURSIVE super_setCookiesFromUrl(_, _, _, _)
super_setCookiesFromUrl(jar, cs, url, t) ==
    IF cs = <<>> THEN [jar |-> jar, added |-> FALSE]
    ELSE LET c == [Head(cs) EXCEPT !.domain = IF @ = None THEN url ELSE @]
             one == IF c.domain = url THEN insertCookie(jar, c, t)
                    ELSE [jar |-> jar, added |-> FALSE]
             more == super_setCookiesFromUrl(one.jar, Tail(cs), url, t)
         IN  [jar |-> more.jar, added |-> one.added \/ more.added]

\* Mutant: a refused call empties the jar.
setCookiesFromUrl_Clearing(jar, cs, url, t, accept) ==
    IF accept = "never" THEN [jar |-> <<>>, ret |-> FALSE]
    ELSE LET res == super_setCookiesFromUrl(jar, cs, url, t)
         IN  [jar |-> res.jar, ret |-> res.added]

\* Mutant: the accept policy is not consulted.
setCookiesFromUrl_Always(jar, cs, url, t, accept) ==
    LET res == super_setCookiesFromUrl(jar, cs, url, t)
    IN  [jar |-> res.jar, ret |-> res.added]

\* CookieJar.setCookiesFromUrl
setCookiesFromUrl(jar, cs, url, t, accept) ==
    IF accept = "never" THEN [jar |-> jar, ret |-> FALSE]
    ELSE LET res == super_setCookiesFromUrl(jar, cs, url, t)
         IN  [jar |-> res.jar, ret |-> res.added]

\* Mutant: a cookie that expires at this very moment is purged too.
purge_old_cookies_Strict(jar, t) ==
    LET Keep(c) == isSessionCookie(c) \/ c.expiry[1] > t
    IN  SelectSeq(jar, Keep)

\* CookieJar.purge_old_cookies
purge_old_cookies(jar, t) ==
    LET Keep(c) == isSessionCookie(c) \/ c.expiry[1] >= t
    IN  SelectSeq(jar, Keep)

\* Mutant: every cookie is written, session cookies too.
SaveLines_All(jar) == [i \in 1..Len(jar) |-> toRawForm(jar[i])]

\* Mutant: each line replaces the list instead of joining it.
SaveLines_Overwrite(jar) ==
    LET Persistent(c) == ~isSessionCookie(c)
        kept == SelectSeq(jar, Persistent)
    IN  IF kept = <<>> THEN <<>> ELSE <<toRawForm(kept[Len(kept)])>>

\* The loop of save: one line for each cookie that is no session cookie.
SaveLines(jar) ==
    LET Persistent(c) == ~isSessionCookie(c)
        kept == SelectSeq(jar, Persistent)
    IN  [i \in 1..Len(kept) |-> toRawForm(kept[i])]

\* LineConfigParser.save(): the file is rewritten with the data.
LineConfigParser_save(file, data) == data

\* Mutant: the cookies are written as they are, expired ones too.
save_Unpurged(jar, file, t, store) ==
    IF ~store THEN [jar |-> jar, file |-> file]
    ELSE [jar |-> jar, file |-> LineConfigParser_save(file, SaveLines(jar))]

\* Mutant: with cookies-store off the file is emptied.
save_Deleting(jar, file, t, store) ==
    IF ~store THEN [jar |-> jar, file |-> <<>>]
    ELSE LET purged == purge_old_cookies(jar, t)
         IN  [jar |-> purged,
              file |-> LineConfigParser_save(file, SaveLines(purged))]

\* CookieJar.save
save(jar, file, t, store) ==
    IF ~store THEN [jar |-> jar, file |-> file]
    ELSE LET purged == purge_old_cookies(jar, t)
         IN  [jar |-> purged,
              file |-> LineConfigParser_save(file, SaveLines(purged))]

\* Mutant: the first line without a cookie ends the loading.
RECURSIVE LoadCookies_StopAtJunk(_)
LoadCookies_StopAtJunk(file) ==
    IF file = <<>> \/ parseCookies(Head(file)) = <<>> THEN <<>>
    ELSE parseCookies(Head(file)) \o LoadCookies_StopAtJunk(Tail(file))

\* CookieJar.__init__: the cookies of every line of the file, in order.
RECURSIVE LoadCookies(_)
LoadCookies(file) ==
    IF file = <<>> THEN <<>>
    ELSE parseCookies(Head(file)) \o LoadCookies(Tail(file))

SetCookiesFromUrl(cs, url, accept) ==
    /\ LET res == setCookiesFromUrl(allCookies, cs, url, now, accept)
       IN  /\ allCookies' = res.jar
           /\ last' = [op |-> "setCookiesFromUrl", accept |-> accept,
                       ret |-> res.ret]
    /\ refused' = (accept = "never")
    /\ UNCHANGED <<nmvars, rlvars, cookiefile, now, saved>>

PurgeOldCookies ==
    /\ allCookies' = purge_old_cookies(allCookies, now)
    /\ last' = [op |-> "purge_old_cookies"]
    /\ UNCHANGED <<nmvars, rlvars, cookiefile, now, saved, refused>>

Save(store) ==
    /\ LET res == save(allCookies, cookiefile, now, store)
       IN  /\ allCookies' = res.jar
           /\ cookiefile' = res.file
    /\ saved' = IF store
                THEN [valid |-> TRUE,
                      kept |-> {c \in Range(allCookies) :
                                  ~isSessionCookie(c) /\ c.expiry[1] >= now}]
                ELSE saved
    /\ last' = [op |-> "save", store |-> store,
                purged |-> save(allCookies, cookiefile, now, store).jar
                              # allCookies,
                replaced |-> /\ cookiefile # <<>>
                             /\ save(allCookies, cookiefile, now, store).file
                                   # cookiefile]
    /\ UNCHANGED <<nmvars, rlvars, now, refused>>

\* The browser starts again: a new CookieJar is built from the file.
Load ==
    /\ allCookies' = LoadCookies(cookiefile)
    /\ last' = [op |-> "load"]
    /\ UNCHANGED <<nmvars, rlvars, cookiefile, now, saved, refused>>

\* QDateTime.currentDateTime() moves on.
Tick ==
    /\ now < MaxTime
    /\ now' = now + 1
    /\ last' = [op |-> "tick"]
    /\ UNCHANGED <<nmvars, rlvars, allCookies, cookiefile, saved, refused>>

InitCookies ==
    /\ networkAccessible = "Accessible"
    /\ _requests = <<>>
    /\ reply = [h \in Handles |-> Unborn]
    /\ SSL_AVAILABLE = TRUE
    /\ shutdown_done = FALSE
    /\ raised = FALSE
    /\ hist = [h \in Handles |-> [tracked |-> 0, untracked |-> 0]]
    /\ RlIdle
    /\ cookiefile \in InitialFiles
    /\ allCookies = LoadCookies(cookiefile)
    /\ now = 0
    /\ saved = NeverSaved
    /\ refused = FALSE
    /\ last = [op |-> "init"]

NextCookies ==
    \/ \E cs \in CookieLists, url \in Hosts, accept \in AcceptPolicies :
          SetCookiesFromUrl(cs, url, accept)
    \/ PurgeOldCookies
    \/ \E store \in BOOLEAN : Save(store)
    \/ Load
    \/ Tick

SpecCookies == InitCookies /\ [][NextCookies]_vars

\* ------------------------------------------------------------ ReadlineBridge

(***************************************************************************)
(*   ReadlineBridge  src/qutebrowser/utils/readline.py                     *)
(*                                                                         *)
(* A line edit is its text, a sequence of characters, and its cursor, the  *)
(* number of characters left of it.  A selection lives only inside one     *)
(* command.  An optional text is <<>> when absent and <<text>> otherwise.  *)
(***************************************************************************)

\* The QLineEdits of the command line and of the prompt.
Widgets == {"command", "prompt"}

\* What the line edits hold when the bridge is built.
InitialTexts == [command |-> <<"a", " ">>, prompt |-> <<>>]

NoText == <<>>

\* ReadlineBridge.widget: the focused widget if it is a QLineEdit, or None.
widget(f) == IF f \in Widgets THEN f ELSE None

\* QLineEdit.cursorWordForward: over the rest of the word and the blanks
\* that follow it.
RECURSIVE SkipForward(_, _, _)
SkipForward(text, pos, blanks) ==
    IF pos < Len(text) /\ ((text[pos + 1] = " ") = blanks)
    THEN SkipForward(text, pos + 1, blanks) ELSE pos

cursorWordForward(text, pos) ==
    SkipForward(text, SkipForward(text, pos, FALSE), TRUE)

\* QLineEdit.cursorWordBackward: over the blanks before the cursor and the
\* word before them.
RECURSIVE SkipBackward(_, _, _)
SkipBackward(text, pos, blanks) ==
    IF pos > 0 /\ ((text[pos] = " ") = blanks)
    THEN SkipBackward(text, pos - 1, blanks) ELSE pos

cursorWordBackward(text, pos) ==
    SkipBackward(text, SkipBackward(text, pos, TRUE), FALSE)

\* Where a cursor command of QLineEdit takes the cursor.
CursorTarget(move, le) ==
    CASE move = "home" -> 0
      [] move = "end" -> Len(le.text)
      [] move = "cursorBackward" -> IF le.cursor > 0 THEN le.cursor - 1 ELSE 0
      [] move = "cursorForward" ->
            IF le.cursor < Len(le.text) THEN le.cursor + 1 ELSE le.cursor
      [] move = "cursorWordBackward" -> cursorWordBackward(le.text, le.cursor)
      [] move = "cursorWordForward" -> cursorWordForward(le.text, le.cursor)

\* The text without the characters from+1 .. to.
Cut(text, from, to) == SubSeq(text, 1, from) \o SubSeq(text, to + 1, Len(text))

\* QLineEdit.selectedText() after the cursor moved to target with mark set.
selectedText(le, target) ==
    IF target < le.cursor THEN SubSeq(le.text, target + 1, le.cursor)
    ELSE SubSeq(le.text, le.cursor + 1, target)

\* QLineEdit.del_(): the selected text goes; without a selection the
\* character right of the cursor goes.
del_(le, target) ==
    LET from == IF target < le.cursor THEN target ELSE le.cursor
        to == IF target < le.cursor THEN le.cursor ELSE target
    IN  IF from < to
        THEN [text |-> Cut(le.text, from, to), cursor |-> from]
        ELSE IF le.cursor < Len(le.text)
        THEN [text |-> Cut(le.text, le.cursor, le.cursor + 1),
              cursor |-> le.cursor]
        ELSE le

\* QLineEdit.backspace() without a selection.
backspace(le) ==
    IF le.cursor > 0
    THEN [text |-> Cut(le.text, le.cursor - 1, le.cursor),
          cursor |-> le.cursor - 1]
    ELSE le

\* QLineEdit.insert(text) without a selection.
insert(le, new) ==
    [text |-> SubSeq(le.text, 1, le.cursor) \o new
                 \o SubSeq(le.text, le.cursor + 1, Len(le.text)),
     cursor |-> le.cursor + Len(new)]

\* The body of the four kill commands: select up to the target, keep the
\* selected text, delete.
Kill(le, move) ==
    LET target == CursorTarget(move, le)
    IN  [lineedit |-> del_(le, target), deleted |-> selectedText(le, target)]

\* rl_yank: what the focused line edit holds afterwards.
rl_yank(f, les, del) ==
    IF widget(f) = None \/ del[f] = NoText THEN les
    ELSE [les EXCEPT ![f] = insert(@, del[f][1])]

\* The body of the six cursor commands.
RlMove(move) ==
    /\ lineedit' = IF widget(focus) = None THEN lineedit
                   ELSE [lineedit EXCEPT
                           ![focus].cursor = CursorTarget(move, lineedit[focus])]
    /\ last' = [op |-> "rl_move"]
    /\ UNCHANGED <<nmvars, jarvars, focus, deleted>>

\* The four kill commands, each with the cursor command it selects by.
RlKill(move) ==
    /\ IF widget(focus) = None
       THEN UNCHANGED <<lineedit, deleted>>
       ELSE LET res == Kill(lineedit[focus], move)
            IN  /\ lineedit' = [lineedit EXCEPT ![focus] = res.lineedit]
                /\ deleted' = [deleted EXCEPT ![focus] = <<res.deleted>>]
    /\ last' = [op |-> "rl_kill"]
    /\ UNCHANGED <<nmvars, jarvars, focus>>

RlBackwardChar == RlMove("cursorBackward")

RlForwardChar == RlMove("cursorForward")

RlBackwardWord == RlMove("cursorWordBackward")

RlForwardWord == RlMove("cursorWordForward")

RlBeginningOfLine == RlMove("home")

RlEndOfLine == RlMove("end")

RlUnixLineDiscard == RlKill("home")

RlKillLine == RlKill("end")

RlUnixWordRubout == RlKill("cursorWordBackward")

RlKillWord == RlKill("cursorWordForward")

RlYank ==
    /\ widget(focus) # None /\ deleted[focus] # NoText
          => Len(lineedit[focus].text) + Len(deleted[focus][1]) <= MaxText
    /\ lineedit' = rl_yank(focus, lineedit, deleted)
    /\ last' = [op |-> "rl_yank"]
    /\ UNCHANGED <<nmvars, jarvars, focus, deleted>>

RlDeleteChar ==
    /\ lineedit' = IF widget(focus) = None THEN lineedit
                   ELSE [lineedit EXCEPT
                           ![focus] = del_(@, lineedit[focus].cursor)]
    /\ last' = [op |-> "rl_delete_char"]
    /\ UNCHANGED <<nmvars, jarvars, focus, deleted>>

RlBackwardDeleteChar ==
    /\ lineedit' = IF widget(focus) = None THEN lineedit
                   ELSE [lineedit EXCEPT ![focus] = backspace(@)]
    /\ last' = [op |-> "rl_backward_delete_char"]
    /\ UNCHANGED <<nmvars, jarvars, focus, deleted>>

\* QApplication.focusWidget() changes: a line edit, or another widget.
FocusChanged(w) ==
    /\ w # focus
    /\ focus' = w
    /\ last' = [op |-> "focus"]
    /\ UNCHANGED <<nmvars, jarvars, lineedit, deleted>>

InitReadline ==
    /\ networkAccessible = "Accessible"
    /\ _requests = <<>>
    /\ reply = [h \in Handles |-> Unborn]
    /\ SSL_AVAILABLE = TRUE
    /\ shutdown_done = FALSE
    /\ raised = FALSE
    /\ hist = [h \in Handles |-> [tracked |-> 0, untracked |-> 0]]
    /\ JarIdle
    /\ focus = None
    /\ lineedit = [w \in Widgets |->
                      [text |-> InitialTexts[w],
                       cursor |-> Len(InitialTexts[w])]]
    /\ deleted = [w \in Widgets |-> NoText]
    /\ last = [op |-> "init"]

NextReadline ==
    \/ RlBackwardChar
    \/ RlForwardChar
    \/ RlBackwardWord
    \/ RlForwardWord
    \/ RlBeginningOfLine
    \/ RlEndOfLine
    \/ RlUnixLineDiscard
    \/ RlKillLine
    \/ RlUnixWordRubout
    \/ RlKillWord
    \/ RlYank
    \/ RlDeleteChar
    \/ RlBackwardDeleteChar
    \/ \E w \in Widgets \cup {None} : FocusChanged(w)

SpecReadline == InitReadline /\ [][NextReadline]_vars

\* ------------------------------------------------------------------ claims

AfterCreateRequest == last.op = "createRequest"

\* C1, as stated: once shutdown() has run, every createRequest returns the
\* 'not accessible' error response, does not call the transport, adds no
\* handle to _requests and leaves the request's headers alone.
C1_NoSideEffectsAfterShutdown ==
    (AfterCreateRequest /\ last.after_shutdown) =>
        /\ last.response = "not_accessible"
        /\ ~last.transport
        /\ _requests = last.before
        /\ last.reqOut = last.reqIn

\* C1, amended: once shutdown() has run, no createRequest dispatches a
\* request to the network.  A call that takes neither the SSL-unavailable
\* branch nor a scheme-handler branch still sets the do-not-track headers,
\* calls the base class (which answers with the 'not accessible' reply) and
\* appends that reply to _requests; the other two branches answer as before.
C1_NotAccessibleAfterShutdown ==
    (AfterCreateRequest /\ last.after_shutdown) =>
        /\ last.response # "network"
        /\ last.transport =>
              /\ last.response = "not_accessible"
              /\ reply[last.handle].kind = "disabled"
              /\ _requests = Append(last.before, last.handle)
              /\ last.reqOut.DNT \in {"0", "1"}
              /\ last.reqOut.XDNT = last.reqOut.DNT
        /\ ~last.transport =>
              /\ last.response \in {"ssl_error", "handler_reply", "handler_exception"}
              /\ _requests = last.before
              /\ last.reqOut = last.reqIn

C1_Witness ==
    /\ AfterCreateRequest
    /\ last.after_shutdown
    /\ last.response = "not_accessible"
    /\ last.reqOut # last.reqIn
    /\ last.handle \in Range(_requests)

\* C2, as stated: right after shutdown() returns, _requests is empty.
C2_EmptyAfterShutdown ==
    last.op = "shutdown" => _requests = <<>>

\* C2, amended: shutdown() leaves _requests as it was; right after it returns
\* every handle in it has been aborted and scheduled for deletion, and each
\* such handle leaves _requests exactly when its destroyed signal fires.
C2_AbortedUntilDestroyed ==
    /\ last.op = "shutdown" =>
          /\ _requests = last.tracked
          /\ \A h \in Range(_requests) :
                /\ reply[h].state = "finished"
                /\ reply[h].aborted
                /\ reply[h].deleteLater
    /\ \A h \in Handles :
          reply[h].aborted =>
              (h \in Range(_requests) <=> reply[h].state # "destroyed")

C2_Witness ==
    /\ last.op = "shutdown"
    /\ Len(_requests) >= 2

\* C3: untracking a handle that is no longer tracked raises no error and
\* leaves the tracker as the first removal left it.
C3_UntrackIdempotent ==
    (last.op = "untrack" /\ last.obj \notin Range(last.before)) =>
        /\ ~last.error
        /\ _requests = last.before

\* C4: every live reply the transport handed out is in _requests, from the
\* return of createRequest until its destroyed signal fires.
C4_InFlightTracked ==
    /\ \A h \in Handles : Live(h) => h \in Range(_requests)
    /\ (AfterCreateRequest /\ last.transport) =>
          /\ Live(last.handle)
          /\ last.handle \in Range(_requests)

C4_Witness ==
    \E h, g \in Handles :
        /\ reply[h].state = "running"
        /\ reply[h].kind = "network"
        /\ h \in Range(_requests)
        /\ reply[g].state = "destroyed"
        /\ Len(_requests) >= 2

Count(calls, c) == Cardinality({i \in 1..Len(calls) : calls[i] = c})

\* C6: shutdown() calls abort() and deleteLater() once on every handle that
\* is in _requests when it runs, and on no other handle.
C6_ShutdownAbortsTracked ==
    last.op = "shutdown" =>
        \A h \in Handles :
            LET n == IF h \in Range(last.tracked) THEN 1 ELSE 0
            IN  /\ Count(last.calls, <<"abort", h>>) = n
                /\ Count(last.calls, <<"deleteLater", h>>) = n
                /\ n = 1 => reply[h].aborted /\ reply[h].deleteLater

C6_Witness ==
    /\ last.op = "shutdown"
    /\ Len(last.tracked) >= 2
    /\ \E h \in Handles : reply[h].state = "destroyed" /\ ~reply[h].aborted

\* C7: in every interleaving of shutdown() with the completion and
\* destroyed signals of tracked replies no slot raises, a destroyed reply is
\* out of _requests whichever came first, and _requests is empty once every
\* reply is gone.
C7_ShutdownCompletionRace ==
    /\ ~raised
    /\ \A h \in Handles : reply[h].state = "destroyed" => h \notin Range(_requests)
    /\ (shutdown_done /\ \A h \in Handles : ~Live(h)) => _requests = <<>>

C7_Witness ==
    /\ shutdown_done
    /\ _requests = <<>>
    /\ \E h, g \in Handles :
          /\ reply[h].state = "destroyed" /\ reply[h].aborted
          /\ reply[g].state = "destroyed" /\ ~reply[g].aborted

\* C8: once shutdown() has run the manager is not accessible, and nothing
\* makes it accessible again.
C8_AccessibleNeverReturns ==
    [][ /\ shutdown_done' => networkAccessible' = "NotAccessible"
        /\ networkAccessible = "NotAccessible" =>
              networkAccessible' = "NotAccessible" ]_vars

C8_Witness ==
    /\ last.op = "shutdown"
    /\ last.again
    /\ networkAccessible = "NotAccessible"

\* C9: a createRequest for a scheme with a registered handler yields what
\* the handler yields, without calling the transport, without adding a
\* handle to _requests and without touching the request's headers.
C9_SchemeHandlerBypass ==
    (AfterCreateRequest /\ last.scheme \in _scheme_handlers) =>
        /\ last.response \in {"handler_reply", "handler_exception"}
        /\ ~last.transport
        /\ last.handle = 0
        /\ _requests = last.before
        /\ last.reqOut = last.reqIn

C9_Witness ==
    /\ AfterCreateRequest
    /\ last.scheme = "qute"
    /\ last.response = "handler_reply"
    /\ last.reqIn = PresetHeaders
    /\ _requests # <<>>

\* C10: https without SSL support yields the protocol error at once, with
\* no transport call and no handle added, whatever handlers are registered.
C10_SslUnavailable ==
    /\ (AfterCreateRequest /\ last.scheme = "https" /\ ~SSL_AVAILABLE) =>
          /\ last.response = "ssl_error"
          /\ ~last.transport
          /\ last.handle = 0
          /\ _requests = last.before
          /\ last.reqOut = last.reqIn
    /\ \A handlers \in SUBSET Schemes :
          Branch("https", FALSE, handlers) = "ssl_error"

C10_Witness ==
    /\ AfterCreateRequest
    /\ last.scheme = "https"
    /\ ~SSL_AVAILABLE
    /\ last.response = "ssl_error"
    /\ _requests # <<>>

\* C11: when a registered scheme handler fails, createRequest still returns
\* a response; the handler's exception never leaves createRequest.
C11_HandlerFaultContained ==
    (AfterCreateRequest /\ last.scheme \in _scheme_handlers) =>
        last.response # "handler_exception"

\* C12: with ssl-strict on, on_ssl_errors never calls ignoreSslErrors and
\* reports nothing to the message service, whatever the list of errors.
C12_StrictBlocks ==
    (last.op = "on_ssl_errors" /\ last.strict) =>
        /\ last.ignoreSslErrors = 0
        /\ last.error_calls = 0
        /\ last.warn_calls = 0

C12_Witness ==
    /\ last.op = "on_ssl_errors"
    /\ last.strict
    /\ last.errors >= 2

\* C13: with ssl-strict off, a list of n errors gives exactly n warn calls
\* and one ignoreSslErrors call.
C13_WarnPerError ==
    (last.op = "on_ssl_errors" /\ ~last.strict) =>
        /\ last.warn_calls = last.errors
        /\ last.ignoreSslErrors = 1

AuthOps == {"on_authentication_required", "on_proxy_authentication_required"}

\* C14: on either authentication signal a cancelled prompt leaves the
\* authenticator's user and password as they were (unset), an answer sets
\* them to exactly the pair returned, and the two slots differ only in the
\* prompt text.
C14_AuthenticatorFilled ==
    last.op \in AuthOps =>
        /\ last.answer = None => last.authenticator = last.before
        /\ last.answer # None =>
              /\ last.authenticator.user = last.answer[1]
              /\ last.authenticator.password = last.answer[2]
        /\ last.prompt = IF last.op = "on_proxy_authentication_required"
                         THEN "Proxy username" ELSE "Username"

C14_Witness ==
    /\ last.op = "on_proxy_authentication_required"
    /\ last.answer = None
    /\ last.authenticator = [user |-> None, password |-> None]

\* C15: every request that reaches the transport leaves createRequest with
\* DNT and X-Do-Not-Track both '1' when do-not-track is set and both '0'
\* when it is not, whatever the request carried before.
C15_DoNotTrackHeaders ==
    (AfterCreateRequest /\ last.transport) =>
        /\ last.reqOut.DNT = (IF last.dnt THEN "1" ELSE "0")
        /\ last.reqOut.XDNT = last.reqOut.DNT

C15_Witness ==
    /\ AfterCreateRequest
    /\ last.transport
    /\ last.scheme = "https"
    /\ last.dnt
    /\ last.reqIn = PresetHeaders
    /\ last.reqOut.DNT = "1"
    /\ last.reqOut.XDNT = "1"

\* C16: when the accept policy is 'never', setCookiesFromUrl returns False
\* and the cookie store is the one it was before the call, whatever the
\* (non-empty) cookie list and the URL.
C16_NeverAcceptsNothing ==
    [][(last'.op = "setCookiesFromUrl" /\ last'.accept = "never")
          => (last'.ret = FALSE /\ allCookies' = allCookies)]_vars

\* A refused call on a jar that already holds cookies.
C16_Witness ==
    /\ last.op = "setCookiesFromUrl"
    /\ last.accept = "never"
    /\ last.ret = FALSE
    /\ allCookies # <<>>

FileHasSessionCookie ==
    \E i \in 1..Len(cookiefile) :
        cookiefile[i].kind = "cookie" /\ cookiefile[i].expires = <<>>

SessionCookies(jar) == SelectSeq(jar, isSessionCookie)

\* C17: a cookie without expiry is a session cookie; no line of the cookies
\* file is ever a session cookie, and save leaves the session cookies of the
\* store where they are.
C17_SessionCookiesStayInMemory ==
    /\ [](\A c \in Range(allCookies) : c.expiry = <<>> => isSessionCookie(c))
    /\ [](~FileHasSessionCookie)
    /\ [][last'.op = "save"
            => SessionCookies(allCookies') = SessionCookies(allCookies)]_vars

\* A save that wrote a file while the store holds a session cookie.
C17_Witness ==
    /\ last.op = "save"
    /\ last.store
    /\ cookiefile # <<>>
    /\ SessionCookies(allCookies) # <<>>

\* C18: purge_old_cookies removes exactly the cookies that are no session
\* cookies and expire strictly before now: none of those remains, and every
\* session cookie and every cookie with expiry >= now is still in the store.
C18_PurgeExactlyExpired ==
    [][last'.op = "purge_old_cookies"
          => /\ \A c \in Range(allCookies') :
                   isSessionCookie(c) \/ ~(c.expiry[1] < now)
             /\ \A c \in Range(allCookies) :
                   (isSessionCookie(c) \/ c.expiry[1] >= now)
                      => c \in Range(allCookies')
             /\ Range(allCookies') \subseteq Range(allCookies)]_vars

\* After a purge the store holds a cookie that expires at this very moment
\* and a session cookie.
C18_Witness ==
    /\ last.op = "purge_old_cookies"
    /\ \E c \in Range(allCookies) : c.expiry = <<now>>
    /\ \E c \in Range(allCookies) : isSessionCookie(c)

\* C19: save with cookies-store off does nothing: the file keeps what an
\* earlier save wrote and the store is not purged.
C19_SaveDisabledNoOp ==
    [][(last'.op = "save" /\ ~last'.store)
          => (cookiefile' = cookiefile /\ allCookies' = allCookies)]_vars

\* A disabled save after an enabled one wrote a file, with an expired cookie
\* still in the store.
C19_Witness ==
    /\ last.op = "save"
    /\ ~last.store
    /\ saved.valid
    /\ cookiefile # <<>>
    /\ \E c \in Range(allCookies) : ~isSessionCookie(c) /\ c.expiry[1] < now

\* A cookie by name, domain, path and value.
Identity(c) ==
    [name |-> c.name, domain |-> c.domain, path |-> c.path, value |-> c.value]

Identities(cs) == {Identity(c) : c \in cs}

\* C20 as stated: a jar built from the saved file holds the cookies the save
\* had to write, without those that expired between the save and the load.
C20_RoundTripMinusExpired ==
    (last.op = "load" /\ saved.valid)
       => Identities(Range(allCookies))
             = Identities({c \in saved.kept : c.expiry[1] >= now})

\* C20: a jar built from the saved file holds exactly the cookies that were
\* no session cookies and not expired when save ran, by name, domain, path
\* and value; those that expired since are loaded too.
C20_RoundTripLoadsAll ==
    (last.op = "load" /\ saved.valid)
       => Identities(Range(allCookies)) = Identities(saved.kept)

\* A load of a file of two cookies, one of which expired after the save.
C20_Witness ==
    /\ last.op = "load"
    /\ saved.valid
    /\ Len(allCookies) = 2
    /\ \E c \in saved.kept : c.expiry[1] < now

\* C21: for a request that reaches the transport, Accept-Language is set if
\* and only if the configured string is neither None nor empty; it then
\* replaces the value the request carried, and otherwise the header of the
\* request is the one it came with.
C21_AcceptLanguageIffPresent ==
    (AfterCreateRequest /\ last.transport) =>
        IF last.accept_language \notin {None, ""}
        THEN last.reqOut.AL = last.accept_language
        ELSE last.reqOut.AL = last.reqIn.AL

PersistentCookies(jar) ==
    LET Persistent(c) == ~isSessionCookie(c)
    IN  SelectSeq(jar, Persistent)

\* C22: save with cookies-store on rewrites the whole file: afterwards the
\* file is exactly one line for each cookie of the store that is no session
\* cookie, none of them expired at the time of the save, every line is the
\* line of a cookie of the store, and the expired cookies have left the
\* store.
C22_SaveRewritesFile ==
    [][(last'.op = "save" /\ last'.store)
          => /\ Len(cookiefile') = Len(PersistentCookies(allCookies'))
             /\ \A i \in 1..Len(cookiefile') :
                   cookiefile'[i] = toRawForm(PersistentCookies(allCookies')[i])
             /\ \A c \in Range(allCookies') :
                   isSessionCookie(c) \/ c.expiry[1] >= now
             /\ \A c \in Range(allCookies) :
                   (isSessionCookie(c) \/ c.expiry[1] >= now)
                      => c \in Range(allCookies')]_vars

\* A save that dropped an expired cookie from the store, replaced the
\* earlier content of the file and wrote the cookie that was left.
C22_Witness ==
    /\ last.op = "save"
    /\ last.store
    /\ last.purged
    /\ last.replaced
    /\ cookiefile # <<>>
\* The cookies written on one line of the file.
CookiesOnLine(line) ==
    IF line.kind = "cookie" THEN {ParseCookie(line)}
    ELSE IF line.kind = "multi" THEN {ParseCookie(r) : r \in Range(line.cookies)}
    ELSE {}

LinesOfKind(kind) ==
    {i \in 1..Len(cookiefile) : cookiefile[i].kind = kind}

\* C23: loading takes every cookie of every line: a blank or unparseable
\* line gives none and does not keep the cookies of the other lines out, a
\* line of several cookies gives them all, and nothing else is loaded.
C23_LoadSkipsMalformedLines ==
    last.op = "load" =>
        /\ \A i \in 1..Len(cookiefile) :
               CookiesOnLine(cookiefile[i]) \subseteq Range(allCookies)
        /\ Range(allCookies)
              = UNION {CookiesOnLine(cookiefile[i]) : i \in 1..Len(cookiefile)}

\* A load of a file that starts with an unparseable line, goes on with a
\* line of two cookies and ends with a blank line.
C23_Witness ==
    /\ last.op = "load"
    /\ LinesOfKind("junk") # {}
    /\ LinesOfKind("blank") # {}
    /\ \E i \in LinesOfKind("multi") : Len(cookiefile[i].cookies) = 2
    /\ Len(allCookies) = 2
\* C24: the accept policy is read at each call and gates insertions only.
\* A refused call leaves every stored cookie in allCookies; a save with
\* cookies-store on that follows a refused call writes every stored cookie
\* that is no session cookie and not expired; a call under another policy
\* that follows a refused call is the call of QNetworkCookieJar again.
C24_PolicyGatesInsertionsOnly ==
    /\ [][(last'.op = "setCookiesFromUrl" /\ last'.accept = "never")
             => \A i \in 1..Len(allCookies) :
                   i <= Len(allCookies') /\ allCookies'[i] = allCookies[i]]_vars
    /\ [][(refused /\ last'.op = "save" /\ last'.store)
             => \A c \in Range(allCookies) :
                   (~isSessionCookie(c) /\ c.expiry[1] >= now)
                      => \E i \in 1..Len(cookiefile') :
                            cookiefile'[i] = toRawForm(c)]_vars
    /\ [][(refused /\ last'.op = "setCookiesFromUrl"
                   /\ last'.accept # "never")
             => \E cs \in CookieLists, url \in Hosts :
                   LET res == super_setCookiesFromUrl(allCookies, cs, url, now)
                   IN  allCookies' = res.jar /\ last'.ret = res.added]_vars

\* A save after the latest call was refused, which wrote a cookie that an
\* earlier call had stored (no cookie of a file expires at an odd time).
C24_Witness ==
    /\ refused
    /\ last.op = "save"
    /\ last.store
    /\ \E c \in Range(allCookies) :
          /\ c.expiry = <<1>>
          /\ \E i \in 1..Len(cookiefile) : cookiefile[i] = toRawForm(c)

\* What a step took out of the focused line edit: the characters that stood
\* right of where the cursor is now.
RemovedText ==
    LET old == lineedit[focus].text
        c == lineedit'[focus].cursor
    IN  SubSeq(old, c + 1, c + Len(old) - Len(lineedit'[focus].text))

\* The text kept for the focused line edit is the text its kill removed.
KillKeepsRemovedText ==
    [][(last'.op = "rl_kill" /\ widget(focus) # None)
          => deleted'[focus] = <<RemovedText>>]_vars

\* rl_yank inserts the kept text of the focused line edit at the cursor, and
\* changes nothing without a focused line edit or without a kept text.
YankInsertsKeptText ==
    [][last'.op = "rl_yank"
          => IF widget(focus) = None \/ deleted[focus] = NoText
             THEN lineedit' = lineedit
             ELSE LET le == lineedit[focus]
                      new == lineedit'[focus]
                      n == Len(deleted[focus][1])
                  IN  /\ SubSeq(new.text, le.cursor + 1, le.cursor + n)
                            = deleted[focus][1]
                      /\ Cut(new.text, le.cursor, le.cursor + n) = le.text]_vars

\* A command touches neither the line edits nor the kept texts of the
\* widgets that are not focused, and nothing at all without a focused line
\* edit; rl_delete_char and rl_backward_delete_char keep every kept text.
KeptTextIsPerWidget ==
    [][/\ \A w \in Widgets :
             w # focus => (deleted'[w] = deleted[w] /\ lineedit'[w] = lineedit[w])
       /\ last'.op \in {"rl_delete_char", "rl_backward_delete_char"}
             => deleted' = deleted]_vars

\* C25: ReadlineBridge keeps one last-deleted text per widget; rl_yank
\* inserts exactly the text that the most recent kill command removed from
\* the focused line edit, whatever was killed in other widgets, and does
\* nothing without a focused line edit or without a kill on it;
\* rl_delete_char and rl_backward_delete_char never change the kept text.
C25_YankInsertsLastKill ==
    KillKeepsRemovedText /\ YankInsertsKeptText /\ KeptTextIsPerWidget

====
